---- MODULE Spec2Model ----
(***************************************************************************)
(* Chat-completion gateway: the router (/api/ai-chat), the three provider  *)
(* adapters (openai, gemini, deepseek), the request schema and the error   *)
(* normalizer (createErrorResponse).                                       *)
(*                                                                         *)
(* JavaScript values are tagged records [t |-> <typeof>, v |-> <payload>]. *)
(* A text is a sequence of pieces (strings); a piece is never split by a   *)
(* substring search, so needles are pieces of their own ("connect" in      *)
(* "disconnected" is <<"dis", "connect", "ed">>).  An absent property of   *)
(* an object is a field missing from the record's DOMAIN.                  *)
(***************************************************************************)
EXTENDS Integers, Sequences, FiniteSets, TLC

VARIABLES env, pc, entry, body, adapter, outbound, callMode, arrived,
          fullContent, thrown, defaultMessage, chatError, routerError,
          adapterResp, response, dispatches, providerCalls

vars == <<env, pc, entry, body, adapter, outbound, callMode, arrived,
          fullContent, thrown, defaultMessage, chatError, routerError,
          adapterResp, response, dispatches, providerCalls>>

-----------------------------------------------------------------------------
(* Bounds of the model *)

MaxMsgs == 2

MaxChunks == 2

-----------------------------------------------------------------------------
(* JavaScript values *)

Undefined == [t |-> "undefined"]

Null == [t |-> "null"]

Number(n) == [t |-> "number", v |-> n]

Str(s) == [t |-> "string", v |-> s]

Bool(b) == [t |-> "boolean", v |-> b]

Arr(xs) == [t |-> "array", v |-> xs]

Obj(r) == [t |-> "object", v |-> r]

EmptyObject == [x \in {} |-> Undefined]

\* o.k : undefined for a missing property and for a property of a primitive
Get(o, k) == IF o.t = "object" /\ k \in DOMAIN o.v THEN o.v[k] ELSE Undefined

\* reading a property of null or undefined throws a TypeError
CanReadProps(x) == x.t \notin {"undefined", "null"}

\* JavaScript truthiness of the values used here
Truthy(x) ==
  CASE x.t = "undefined" -> FALSE
    [] x.t = "null" -> FALSE
    [] x.t = "string" -> x.v # <<>>
    [] x.t = "boolean" -> x.v
    [] x.t = "number" -> x.v # "0"
    [] OTHER -> TRUE

-----------------------------------------------------------------------------
(* Text *)

Ws == " "

RECURSIVE TrimStart(_)
TrimStart(s) == IF s # <<>> /\ Head(s) = Ws THEN TrimStart(Tail(s)) ELSE s

RECURSIVE TrimEnd(_)
TrimEnd(s) ==
  IF s # <<>> /\ s[Len(s)] = Ws THEN TrimEnd(SubSeq(s, 1, Len(s) - 1)) ELSE s

\* String.prototype.trim
Trim(s) == TrimEnd(TrimStart(s))

\* String.prototype.includes
Includes(s, needle) ==
  \E i \in 0..(Len(s) - Len(needle)) : SubSeq(s, i + 1, i + Len(needle)) = needle

-----------------------------------------------------------------------------
(* types.ts: ErrorType, ChatErrorImpl, API_ERROR_MESSAGES, createErrorResponse *)

ErrorType == {"API_ERROR", "VALIDATION_ERROR", "CONFIGURATION_ERROR",
              "UNSUPPORTED_MODEL", "RATE_LIMIT_ERROR", "AUTHENTICATION_ERROR",
              "NETWORK_ERROR", "UNKNOWN_ERROR"}

\* new ChatErrorImpl(message, statusCode, type, details, suggestion);
\* details is a record, suggestion a Str; either given as Undefined is left
\* out of the record
ChatErrorImpl(message, statusCode, type, details, suggestion) ==
  LET base == [class |-> "ChatErrorImpl", message |-> message,
               statusCode |-> statusCode, type |-> type]
      withD == IF details = Undefined THEN base
               ELSE [k \in DOMAIN base \cup {"details"} |->
                       IF k = "details" THEN details ELSE base[k]]
  IN  IF suggestion = Undefined THEN withD
      ELSE [k \in DOMAIN withD \cup {"suggestion"} |->
              IF k = "suggestion" THEN suggestion.v ELSE withD[k]]

API_ERROR_MESSAGES ==
  [k \in {"429", "401", "403", "500", "503", "400", "NETWORK", "MODEL"} |->
     CASE k = "429" -> [message |-> <<"The selected AI model is currently at capacity.">>,
                        type |-> "API_ERROR",
                        suggestion |-> <<"Please try again later or select a different model.">>]
       [] k = "401" -> [message |-> <<"API key is invalid or not configured.">>,
                        type |-> "AUTHENTICATION_ERROR",
                        suggestion |-> <<"Please check your API key in the settings.">>]
       [] k = "403" -> [message |-> <<"Access to the AI model is forbidden.">>,
                        type |-> "AUTHENTICATION_ERROR",
                        suggestion |-> <<"Please verify your API key and permissions.">>]
       [] k = "500" -> [message |-> <<"The AI service is experiencing issues.">>,
                        type |-> "API_ERROR",
                        suggestion |-> <<"Please try again later or contact support if the issue persists.">>]
       [] k = "503" -> [message |-> <<"The AI service is temporarily unavailable.">>,
                        type |-> "API_ERROR",
                        suggestion |-> <<"Please try again in a few minutes.">>]
       [] k = "400" -> [message |-> <<"Invalid request format.">>,
                        type |-> "VALIDATION_ERROR",
                        suggestion |-> <<"Please check your input and try again.">>]
       [] k = "NETWORK" -> [message |-> <<"Unable to connect to the AI service.">>,
                            type |-> "NETWORK_ERROR",
                            suggestion |-> <<"Please check your internet connection and try again.">>]
       [] k = "MODEL" -> [message |-> <<"The selected model is not available.">>,
                          type |-> "API_ERROR",
                          suggestion |-> <<"Please try a different model or check the model's status.">>]]

\* error instanceof ChatErrorImpl
IsChatErrorImpl(error) == error.class = "ChatErrorImpl"

\* error instanceof Error (ChatErrorImpl extends Error)
IsError(error) == error.class \in {"Error", "ChatErrorImpl"}

\* apiError?.response?.status is truthy
HasStatus(error) == "response" \in DOMAIN error /\ error.response.status # 0

\* apiError.response.data?.error?.message || error.message
UpstreamMessage(error) ==
  LET m == Get(Get(error.response.data, "error"), "message")
  IN  IF Truthy(m) THEN m.v ELSE error.message

\* API_ERROR_MESSAGES[status] || { message: `API Error (${status}): ...`, ... }
ErrorInfo_AlwaysApiError(error) ==
  LET status == ToString(error.response.status)
  IN  IF status \in DOMAIN API_ERROR_MESSAGES
      THEN [API_ERROR_MESSAGES[status] EXCEPT !.type = "API_ERROR"]
      ELSE [message |-> <<"API Error (", status, "): ">> \o UpstreamMessage(error),
            type |-> "API_ERROR",
            suggestion |-> <<"Please try again later.">>]

ErrorInfo_RateLimited(error) ==
  LET status == ToString(error.response.status)
  IN  IF status = "429"
      THEN [API_ERROR_MESSAGES[status] EXCEPT !.type = "RATE_LIMIT_ERROR"]
      ELSE IF status \in DOMAIN API_ERROR_MESSAGES THEN API_ERROR_MESSAGES[status]
      ELSE [message |-> <<"API Error (", status, "): ">> \o UpstreamMessage(error),
            type |-> "API_ERROR",
            suggestion |-> <<"Please try again later.">>]

ErrorInfo(error) ==
  LET status == ToString(error.response.status)
  IN  IF status \in DOMAIN API_ERROR_MESSAGES THEN API_ERROR_MESSAGES[status]
      ELSE [message |-> <<"API Error (", status, "): ">> \o UpstreamMessage(error),
            type |-> "API_ERROR",
            suggestion |-> <<"Please try again later.">>]

\* error.message.includes("network") || error.message.includes("connect")
IsNetworkMessage(message) ==
  Includes(message, <<"network">>) \/ Includes(message, <<"connect">>)

createErrorResponse_NoPassThrough(error, defaultMsg) ==
  IF IsError(error) /\ HasStatus(error)
  THEN ChatErrorImpl(ErrorInfo(error).message, error.response.status,
                     ErrorInfo(error).type, error.response.data,
                     Str(ErrorInfo(error).suggestion))
  ELSE IF IsError(error) /\ IsNetworkMessage(error.message)
  THEN ChatErrorImpl(API_ERROR_MESSAGES["NETWORK"].message, 503, "NETWORK_ERROR",
                     error, Str(API_ERROR_MESSAGES["NETWORK"].suggestion))
  ELSE ChatErrorImpl(defaultMsg, 500, "UNKNOWN_ERROR", error,
                     Str(<<"Please try again later or contact support if the issue persists.">>))

createErrorResponse_NetworkFirst(error, defaultMsg) ==
  IF IsChatErrorImpl(error) THEN error
  ELSE IF IsError(error) /\ IsNetworkMessage(error.message)
  THEN ChatErrorImpl(API_ERROR_MESSAGES["NETWORK"].message, 503, "NETWORK_ERROR",
                     error, Str(API_ERROR_MESSAGES["NETWORK"].suggestion))
  ELSE IF IsError(error) /\ HasStatus(error)
  THEN ChatErrorImpl(ErrorInfo(error).message, error.response.status,
                     ErrorInfo(error).type, error.response.data,
                     Str(ErrorInfo(error).suggestion))
  ELSE ChatErrorImpl(defaultMsg, 500, "UNKNOWN_ERROR", error,
                     Str(<<"Please try again later or contact support if the issue persists.">>))

createErrorResponse(error, defaultMsg) ==
  IF IsChatErrorImpl(error) THEN error
  ELSE IF IsError(error) /\ HasStatus(error)
  THEN ChatErrorImpl(ErrorInfo(error).message, error.response.status,
                     ErrorInfo(error).type, error.response.data,
                     Str(ErrorInfo(error).suggestion))
  ELSE IF IsError(error) /\ IsNetworkMessage(error.message)
  THEN ChatErrorImpl(API_ERROR_MESSAGES["NETWORK"].message, 503, "NETWORK_ERROR",
                     error, Str(API_ERROR_MESSAGES["NETWORK"].suggestion))
  ELSE ChatErrorImpl(defaultMsg, 500, "UNKNOWN_ERROR", error,
                     Str(<<"Please try again later or contact support if the issue persists.">>))

\* the default of createErrorResponse's second parameter
DefaultErrorMessage == <<"An unexpected error occurred">>

-----------------------------------------------------------------------------
(* Values a catch clause can receive *)

\* new Error(message) / a TypeError or SyntaxError raised by the runtime
JsError(message) == [class |-> "Error", message |-> message]

\* an Error of an HTTP client: error.response = { status, data }
HttpError(message, status, data) ==
  [class |-> "Error", message |-> message,
   response |-> [status |-> status, data |-> data]]

\* a thrown value that is not an Error instance
NonError(message) == [class |-> "Other", message |-> message]

NonErrorWithResponse(message, status, data) ==
  [class |-> "Other", message |-> message,
   response |-> [status |-> status, data |-> data]]

\* upstream error payloads: { error: { message } }
ProviderData(text) == Obj([error |-> Obj([message |-> Str(text)])])

UpstreamStatuses == {400, 401, 403, 404, 429, 500, 502, 503}

ErrorTexts == { <<"Request failed with status code">>,
                <<"socket hang up">>,
                <<"network", " ", "timeout">>,
                <<"cannot", " ", "connect">>,
                <<"connect", " ", "ECONNREFUSED">>,
                <<"dis", "connect", "ed">>,
                <<"Network", " ", "Error">> }

DataValues == { Undefined, Obj(EmptyObject),
                ProviderData(<<"quota exceeded">>),
                ProviderData(<<"model overloaded">>) }

DefaultMessages == { DefaultErrorMessage,
                     <<"Failed to get response from OpenAI">>,
                     <<"Failed to get response from Gemini">>,
                     <<"Failed to get response from DeepSeek">> }

\* the ChatErrorImpl instances the handlers throw themselves
ConfigurationError(provider) ==
  ChatErrorImpl(<<provider, " API key is not configured">>, 500,
                "CONFIGURATION_ERROR", Undefined,
                Str(<<"Please configure your ", provider,
                      " API key in the environment variables.">>))

ValidationError(zodError) ==
  ChatErrorImpl(<<"Invalid request format">>, 400, "VALIDATION_ERROR", zodError,
                Str(<<"Please check your message format and try again.">>))

UnsupportedModelError ==
  ChatErrorImpl(<<"Unsupported model">>, 400, "UNSUPPORTED_MODEL",
                Undefined, Undefined)

ThrownValues ==
  { JsError(m) : m \in ErrorTexts } \cup
  { NonError(m) : m \in ErrorTexts } \cup
  { HttpError(m, st, d) : m \in ErrorTexts, st \in UpstreamStatuses, d \in DataValues } \cup
  { NonErrorWithResponse(m, st, d) :
      m \in ErrorTexts, st \in UpstreamStatuses, d \in DataValues } \cup
  { ConfigurationError(p) : p \in {"OpenAI", "Gemini", "DeepSeek"} } \cup
  { UnsupportedModelError,
    ValidationError([class |-> "ZodError", issues |-> {[path |-> "model", index |-> 0]}]) }

-----------------------------------------------------------------------------
(* types.ts: chatRequestSchema *)

KnownModels == { <<"openai">>, <<"gemini">>, <<"deepseek">> }

MessageRole == { <<"user">>, <<"assistant">>, <<"system">> }

Issue(path, index) == [path |-> path, index |-> index]

\* z.object({ name: z.string(), arguments: z.string() }).optional()
FunctionCallOk(fc) ==
  \/ fc.t = "undefined"
  \/ fc.t = "object" /\ Get(fc, "name").t = "string" /\ Get(fc, "arguments").t = "string"

\* the issues of element i of messages against the message object schema
MessageIssues(m, i) ==
  IF m.t # "object" THEN { Issue("messages", i) }
  ELSE (IF Get(m, "role").t = "string" /\ Get(m, "role").v \in MessageRole
        THEN {} ELSE { Issue("messages.role", i) })
       \cup (IF Get(m, "content").t = "string"
             THEN {} ELSE { Issue("messages.content", i) })
       \cup (IF Get(m, "name").t \in {"undefined", "string"}
             THEN {} ELSE { Issue("messages.name", i) })
       \cup (IF FunctionCallOk(Get(m, "function_call"))
             THEN {} ELSE { Issue("messages.function_call", i) })

\* chatRequestSchema.safeParse(input).error.issues: every violated field
SchemaIssues(input) ==
  LET model == Get(input, "model")
      messages == Get(input, "messages")
      stream == Get(input, "stream")
      parameters == Get(input, "parameters")
  IN  (IF model.t = "string" /\ model.v \in KnownModels
       THEN {} ELSE { Issue("model", 0) })
      \cup (IF messages.t # "array" THEN { Issue("messages", 0) }
            ELSE UNION { MessageIssues(messages.v[i], i) : i \in DOMAIN messages.v })
      \cup (IF stream.t \in {"undefined", "boolean"}
            THEN {} ELSE { Issue("stream", 0) })
      \cup (IF parameters.t \in {"undefined", "object"}
            THEN {} ELSE { Issue("parameters", 0) })

ZodError(issues) == [class |-> "ZodError", issues |-> issues]

\* the keys of o among ks that hold a defined value
Pick(o, ks) ==
  LET keep == { k \in ks : Get(o, k) # Undefined }
  IN  Obj([k \in keep |-> o.v[k]])

\* chatRequestSchema.safeParse(input).data: unknown keys are stripped
SchemaData(input) ==
  LET messages == Get(input, "messages")
      parsed == [i \in DOMAIN messages.v |->
                   Pick(messages.v[i], {"role", "content", "name", "function_call"})]
      top == Pick(input, {"model", "stream", "parameters"}).v
  IN  Obj([k \in DOMAIN top \cup {"messages"} |->
             IF k = "messages" THEN Arr(parsed) ELSE top[k]])

-----------------------------------------------------------------------------
(* The steps shared by the router and the adapters: trim, validate *)

Malformed == [t |-> "malformed"]

\* msg.content?.trim() throws when content is neither nullish nor a string;
\* msg.role throws when msg is null or undefined
TrimThrows(msg) ==
  \/ ~CanReadProps(msg)
  \/ Get(msg, "content").t \notin {"undefined", "null", "string"}

\* body.messages.map(...) throws a TypeError
MapThrows(b) ==
  \/ ~CanReadProps(b)
  \/ Get(b, "messages").t # "array"
  \/ \E i \in DOMAIN Get(b, "messages").v : TrimThrows(Get(b, "messages").v[i])

\* { role: msg.role, content: msg.content?.trim() || "" }
cleanedMessage(msg) ==
  Obj([role |-> Get(msg, "role"),
       content |-> IF Get(msg, "content").t = "string"
                   THEN Str(Trim(Get(msg, "content").v)) ELSE Str(<<>>)])

cleanedMessages(b) ==
  LET messages == Get(b, "messages").v
  IN  Arr([i \in DOMAIN messages |-> cleanedMessage(messages[i])])

\* { ...body, messages: cleanedMessages }
ValidationInput(b) ==
  Obj([k \in DOMAIN b.v \cup {"messages"} |->
         IF k = "messages" THEN cleanedMessages(b) ELSE b.v[k]])

SyntaxError == JsError(<<"Unexpected end of JSON input">>)

TypeError == JsError(<<"Cannot read properties of undefined">>)

\* what the statements from req.json() to the validation check throw, if
\* anything: [threw |-> TRUE, error |-> e] or [threw |-> FALSE, data |-> d]
ParseAndValidate(b) ==
  IF b = Malformed THEN [threw |-> TRUE, error |-> SyntaxError]
  ELSE IF MapThrows(b) THEN [threw |-> TRUE, error |-> TypeError]
  ELSE IF SchemaIssues(ValidationInput(b)) # {}
  THEN [threw |-> TRUE,
        error |-> ValidationError(ZodError(SchemaIssues(ValidationInput(b))))]
  ELSE [threw |-> FALSE, data |-> SchemaData(ValidationInput(b))]

-----------------------------------------------------------------------------
(* Responses *)

ErrorJson_Status200(ce) ==
  LET base == [reply |-> <<>>, error |-> ce.message, errorType |-> ce.type]
      opt == DOMAIN ce \cap {"suggestion", "details"}
  IN  [status |-> 200,
       body |-> [k \in DOMAIN base \cup opt |->
                   IF k \in DOMAIN base THEN base[k] ELSE ce[k]]]

\* NextResponse.json({ reply: "", error, errorType, suggestion, details },
\*                   { status: chatError.statusCode })
ErrorJson(ce) ==
  LET base == [reply |-> <<>>, error |-> ce.message, errorType |-> ce.type]
      opt == DOMAIN ce \cap {"suggestion", "details"}
  IN  [status |-> ce.statusCode,
       body |-> [k \in DOMAIN base \cup opt |->
                   IF k \in DOMAIN base THEN base[k] ELSE ce[k]]]

\* NextResponse.json({ reply, usage }): status 200
SuccessJson(reply, usage) ==
  [status |-> 200,
   body |-> IF usage = Undefined THEN [reply |-> reply]
            ELSE [reply |-> reply, usage |-> usage]]

-----------------------------------------------------------------------------
(* The adapters: deepseek/route.ts, gemini route, openai route *)

Adapters == {"openai", "gemini", "deepseek"}

EnvVar(a) ==
  CASE a = "openai" -> "OPENAI_API_KEY"
    [] a = "gemini" -> "GEMINI_API_KEY"
    [] a = "deepseek" -> "DEEPSEEK_API_KEY"

ProviderName(a) ==
  CASE a = "openai" -> "OpenAI"
    [] a = "gemini" -> "Gemini"
    [] a = "deepseek" -> "DeepSeek"

MissingKey_DeepSeekOptional(e, a) == a # "deepseek" /\ ~Truthy(e[EnvVar(a)])

\* !process.env.<PROVIDER>_API_KEY
MissingKey(e, a) == ~Truthy(e[EnvVar(a)])

\* `Failed to get response from <Provider>`
AdapterDefaultMessage(a) == <<"Failed to get response from " \o ProviderName(a)>>

\* { ...base, ...parameters }: a key of parameters replaces the key of base
Spread(base, parameters) ==
  IF parameters.t # "object" THEN base
  ELSE Obj([k \in DOMAIN base.v \cup DOMAIN parameters.v |->
              IF k \in DOMAIN parameters.v THEN parameters.v[k] ELSE base.v[k]])

\* messages.map(msg => ({ role, content, name, function_call }))
OpenaiMessages(messages) ==
  Arr([i \in DOMAIN messages.v |->
         Pick(messages.v[i], {"role", "content", "name", "function_call"})])

\* messages.map(msg => ({ role: msg.role, content: msg.content }))
DeepseekMessages(messages) ==
  Arr([i \in DOMAIN messages.v |-> Pick(messages.v[i], {"role", "content"})])

\* messages.map(msg => ({ role: assistant ? "model" : "user", parts: [{ text }] }))
GeminiContents(messages) ==
  Arr([i \in DOMAIN messages.v |->
         Obj([role |-> IF Get(messages.v[i], "role") = Str(<<"assistant">>)
                       THEN Str(<<"model">>) ELSE Str(<<"user">>),
              parts |-> Arr(<<Obj([text |-> Get(messages.v[i], "content")])>>)])])

\* the argument of openai.chat.completions.create
OpenaiRequest(data) ==
  Spread(Obj([model |-> Str(<<"gpt-3.5-turbo">>),
              messages |-> OpenaiMessages(Get(data, "messages")),
              temperature |-> Number("0.7"),
              max_tokens |-> Number("1000"),
              top_p |-> Number("1"),
              presence_penalty |-> Number("0"),
              frequency_penalty |-> Number("0"),
              stream |-> IF Get(data, "stream").t = "undefined"
                         THEN Bool(FALSE) ELSE Get(data, "stream")]),
         Get(data, "parameters"))

\* the body of axios.post(config.endpoint, requestBody, ...)
DeepseekRequest(data) ==
  Spread(Obj([model |-> Str(<<"deepseek-chat">>),
              messages |-> DeepseekMessages(Get(data, "messages")),
              temperature |-> Number("0.7"),
              max_tokens |-> Number("1000")]),
         Get(data, "parameters"))

\* the argument of ai.models.generateContent / generateContentStream
GeminiRequest(data) ==
  Obj([model |-> Str(<<"gemini-2.0-flash-001">>),
       contents |-> GeminiContents(Get(data, "messages"))])

ProviderRequest(a, data) ==
  CASE a = "openai" -> OpenaiRequest(data)
    [] a = "gemini" -> GeminiRequest(data)
    [] a = "deepseek" -> DeepseekRequest(data)

\* whether the provider is asked for a stream or for one completion:
\* openai by the request's stream key, gemini by the method called,
\* deepseek never
RequestedMode(a, data) ==
  CASE a = "openai" ->
         IF Truthy(Get(OpenaiRequest(data), "stream")) THEN "stream" ELSE "single"
    [] a = "gemini" -> IF Truthy(Get(data, "stream")) THEN "stream" ELSE "single"
    [] a = "deepseek" -> "single"

\* how the adapter reads the result: if (stream) for await ... else choices[0]
ConsumedMode(a, data) ==
  CASE a = "openai" -> IF Truthy(Get(data, "stream")) THEN "stream" ELSE "single"
    [] a = "gemini" -> IF Truthy(Get(data, "stream")) THEN "stream" ELSE "single"
    [] a = "deepseek" -> "single"

\* the statements of an adapter's POST before the provider call:
\* key check, req.json(), trim, validate
AdapterPrologue(e, a, b) ==
  IF MissingKey(e, a)
  THEN [threw |-> TRUE, error |-> ConfigurationError(ProviderName(a))]
  ELSE ParseAndValidate(b)

\* a provider's result: the list of completions (choices / candidates), each
\* the text of its message or null, and the token usage
Completion(choices, usage) ==
  Obj([k \in (IF choices = Undefined THEN {} ELSE {"choices"})
             \cup (IF usage = Undefined THEN {} ELSE {"usage"}) |->
         IF k = "choices" THEN choices ELSE usage])

\* response.choices[0]?.message?.content (openai reads choices[0] of a
\* result without choices and throws; the others use choices?.[0])
ExtractThrows(a, result) ==
  \/ ~CanReadProps(result)
  \/ a = "openai" /\ Get(result, "choices").t # "array"

\* ...content || ""
ExtractReply(result) ==
  LET choices == Get(result, "choices")
      first == IF choices.t = "array" /\ choices.v # <<>> THEN choices.v[1] ELSE Undefined
  IN  IF first.t = "string" THEN first.v ELSE <<>>

\* usage is read by the openai adapter alone
ExtractUsage(a, result) ==
  IF a = "openai" /\ Truthy(Get(result, "usage")) THEN Get(result, "usage") ELSE Undefined

\* chunk.choices[0]?.delta?.content || "" / if (chunk.text) ...
ChunkText(chunk) == IF chunk.t = "string" THEN chunk.v ELSE <<>>

Accumulate_Prepend(full, chunk) == ChunkText(chunk) \o full

\* fullContent += content
Accumulate(full, chunk) == full \o ChunkText(chunk)

-----------------------------------------------------------------------------
(* State *)

NoError == [class |-> "none"]

NoResponse == [status |-> 0]

NoRequest == [t |-> "none"]

Idle ==
  /\ entry = "none"
  /\ body = NoRequest
  /\ adapter = "none"
  /\ outbound = NoRequest
  /\ callMode = "none"
  /\ arrived = <<>>
  /\ fullContent = <<>>
  /\ adapterResp = NoResponse
  /\ response = NoResponse
  /\ dispatches = 0
  /\ providerCalls = 0

-----------------------------------------------------------------------------
(* Inputs: environments, inbound payloads, provider behaviour *)

EnvVars == {"OPENAI_API_KEY", "GEMINI_API_KEY", "DEEPSEEK_API_KEY"}

\* at most one key is missing: each adapter reads its own key alone
Envs ==
  { e \in [EnvVars -> {Undefined, Str(<<"sk-key">>)}] :
      Cardinality({ k \in EnvVars : e[k] = Undefined }) <= 1 }

FunctionCall == Obj([name |-> Str(<<"lookup">>), arguments |-> Str(<<"{}">>)])

\* elements of messages: two valid messages (content to trim; content
\* absent, with name and function_call) and three invalid ones
MessageElements ==
  { Obj([role |-> Str(<<"user">>), content |-> Str(<<" ", "Hi", " ">>)]),
    Obj([role |-> Str(<<"assistant">>),
         name |-> Str(<<"bob">>), function_call |-> FunctionCall]),
    Obj([role |-> Str(<<"tool">>), content |-> Str(<<"x">>)]),
    Obj([role |-> Str(<<"user">>), content |-> Number("5")]),
    Null }

SeqsUpTo(S, n) == UNION { [1..k -> S] : k \in 0..n }

MessagesValues ==
  { Undefined, Str(<<"Hi">>) } \cup { Arr(ms) : ms \in SeqsUpTo(MessageElements, MaxMsgs) }

ModelValues ==
  { Undefined, Str(<<"openai">>), Str(<<"gemini">>), Str(<<"deepseek">>), Str(<<"claude">>) }

StreamValues == { Undefined, Bool(TRUE), Str(<<"yes">>) }

ParametersValues ==
  { Undefined, Number("1"),
    Obj([messages |-> Arr(<<>>)]),
    Obj([stream |-> Bool(TRUE)]),
    Obj([stream |-> Bool(FALSE)]) }

\* a JSON object holds the keys given a value
JsonObject(model, messages, stream, parameters) ==
  LET all == [model |-> model, messages |-> messages,
              stream |-> stream, parameters |-> parameters]
  IN  Obj([k \in { x \in DOMAIN all : all[x] # Undefined } |-> all[k]])

Bodies ==
  { Malformed, Null } \cup
  { JsonObject(m, ms, st, ps) :
      m \in ModelValues, ms \in MessagesValues,
      st \in StreamValues, ps \in ParametersValues }

Usage == Obj([promptTokens |-> Number("3"), completionTokens |-> Number("2"),
              totalTokens |-> Number("5")])

\* what a provider call resolves to in single-shot mode
ProviderResults ==
  { Completion(Arr(<<Str(<<"Hello!">>)>>), Undefined),
    Completion(Arr(<<Str(<<"Hello!">>)>>), Usage),
    Completion(Arr(<<Null>>), Undefined),
    Completion(Arr(<<>>), Undefined),
    Completion(Undefined, Undefined) }

\* what a provider call rejects with: Error instances of the HTTP client
\* (a status outside 2xx) or of the transport
ProviderErrors ==
  { HttpError(<<"Request failed with status code">>, 401, ProviderData(<<"bad key">>)),
    HttpError(<<"Request failed with status code">>, 400, ProviderData(<<"bad request">>)),
    HttpError(<<"Request failed with status code">>, 429, Undefined),
    HttpError(<<"Request failed with status code">>, 404, ProviderData(<<"quota exceeded">>)),
    HttpError(<<"Request failed with status code">>, 404, ProviderData(<<"model overloaded">>)),
    JsError(<<"connect", " ", "ECONNREFUSED">>),
    JsError(<<"socket hang up">>) }

\* what a stream fails with part-way
StreamErrors ==
  { HttpError(<<"Request failed with status code">>, 401, ProviderData(<<"bad key">>)),
    JsError(<<"socket hang up">>) }

\* the chunks of a stream: text, or a chunk without text
ChunkValues == { Str(<<"Hel">>), Str(<<"lo">>), Undefined }

-----------------------------------------------------------------------------
(* The error normalizer on its own: createErrorResponse applied to a thrown *)
(* value, and applied again to its own result.                              *)

NormInit ==
  /\ Idle
  /\ env = {}
  /\ pc = "thrown"
  /\ thrown \in ThrownValues
  /\ defaultMessage \in DefaultMessages
  /\ chatError = NoError
  /\ routerError = NoError

Normalize ==
  /\ pc = "thrown"
  /\ chatError' = createErrorResponse(thrown, defaultMessage)
  /\ pc' = "normalized"
  /\ UNCHANGED <<env, entry, body, adapter, outbound, callMode, arrived,
                 fullContent, thrown, defaultMessage, routerError,
                 adapterResp, response, dispatches, providerCalls>>

\* createErrorResponse applied to a value it returned
Renormalize ==
  /\ pc = "normalized"
  /\ \E dm \in DefaultMessages :
       /\ defaultMessage' = dm
       /\ routerError' = createErrorResponse(chatError, dm)
  /\ pc' = "renormalized"
  /\ UNCHANGED <<env, entry, body, adapter, outbound, callMode, arrived,
                 fullContent, thrown, chatError,
                 adapterResp, response, dispatches, providerCalls>>

NormNext == Normalize \/ Renormalize

NormSpec == NormInit /\ [][NormNext]_vars

-----------------------------------------------------------------------------
(* The gateway: one inbound request, to the router or to an adapter *)

Init ==
  /\ Idle
  /\ env \in Envs
  /\ pc = "idle"
  /\ thrown = NoError
  /\ defaultMessage = DefaultErrorMessage
  /\ chatError = NoError
  /\ routerError = NoError

\* the router's catch clause: createErrorResponse(error), the error response
RouterCatch(error) ==
  /\ thrown' = error
  /\ defaultMessage' = DefaultErrorMessage
  /\ routerError' = createErrorResponse(error, DefaultErrorMessage)
  /\ response' = ErrorJson(createErrorResponse(error, DefaultErrorMessage))
  /\ pc' = "done"

RouterTarget_AlwaysOpenai(data) ==
  IF Get(data, "model") \in {Str(<<"openai">>), Str(<<"gemini">>), Str(<<"deepseek">>)}
  THEN "openai" ELSE "default"

\* the switch of the router on the validated model
RouterTarget(data) ==
  CASE Get(data, "model") = Str(<<"openai">>) -> "openai"
    [] Get(data, "model") = Str(<<"gemini">>) -> "gemini"
    [] Get(data, "model") = Str(<<"deepseek">>) -> "deepseek"
    [] OTHER -> "default"

\* POST /api/ai-chat up to the fetch of the model handler
RouterPOST ==
  /\ pc = "idle"
  /\ \E b \in Bodies :
       /\ entry' = "router"
       /\ body' = b
       /\ LET r == ParseAndValidate(b) IN
            IF r.threw
            THEN /\ RouterCatch(r.error)
                 /\ UNCHANGED <<adapter, dispatches>>
            ELSE IF RouterTarget(r.data) = "default"
            THEN /\ RouterCatch(UnsupportedModelError)
                 /\ UNCHANGED <<adapter, dispatches>>
            ELSE /\ adapter' = RouterTarget(r.data)
                 /\ dispatches' = dispatches + 1
                 /\ pc' = "dispatched"
                 /\ UNCHANGED <<thrown, defaultMessage, routerError, response>>
  /\ UNCHANGED <<env, outbound, callMode, arrived, fullContent, chatError,
                 adapterResp, providerCalls>>

\* the fetch of the model handler rejects, or its response is not JSON
RouterFetchFails ==
  /\ pc = "dispatched"
  /\ RouterCatch(JsError(<<"fetch failed">>))
  /\ UNCHANGED <<env, entry, body, adapter, outbound, callMode, arrived,
                 fullContent, chatError, adapterResp, dispatches, providerCalls>>

\* the adapter answers: to the router when it was dispatched, else to the client
AdapterReturns(en, resp) ==
  /\ adapterResp' = resp
  /\ pc' = IF en = "router" THEN "replied" ELSE "done"

\* a catch clause of an adapter
AdapterCatch(en, error, defaultMsg) ==
  /\ thrown' = error
  /\ defaultMessage' = defaultMsg
  /\ chatError' = createErrorResponse(error, defaultMsg)
  /\ AdapterReturns(en, ErrorJson(createErrorResponse(error, defaultMsg)))

\* POST of adapter a on body b up to the provider call (en: who called)
AdapterRun(en, a, b) ==
  LET r == AdapterPrologue(env, a, b) IN
    IF r.threw
    THEN /\ AdapterCatch(en, r.error, DefaultErrorMessage)
         /\ UNCHANGED <<outbound, callMode, providerCalls>>
    ELSE /\ outbound' = ProviderRequest(a, r.data)
         /\ callMode' = RequestedMode(a, r.data)
         /\ providerCalls' = providerCalls + 1
         /\ pc' = "calling"
         /\ UNCHANGED <<thrown, defaultMessage, chatError, adapterResp>>

\* the model handler the router fetched runs on the forwarded body
AdapterPOST ==
  /\ pc = "dispatched"
  /\ UNCHANGED <<entry, body, adapter>>
  /\ AdapterRun(entry, adapter, body)
  /\ UNCHANGED <<env, arrived, fullContent, routerError, response, dispatches>>

\* a client posts to a model handler directly
DirectPOST ==
  /\ pc = "idle"
  /\ \E a \in Adapters, b \in Bodies :
       /\ entry' = a
       /\ adapter' = a
       /\ body' = b
       /\ AdapterRun(a, a, b)
  /\ UNCHANGED <<env, arrived, fullContent, routerError, response, dispatches>>

\* the data the running adapter validated
ValidatedData == ParseAndValidate(body).data

\* the provider call resolves
ProviderResolves ==
  /\ pc = "calling"
  /\ IF callMode = "single"
     THEN \E result \in ProviderResults :
            IF ConsumedMode(adapter, ValidatedData) = "stream"
               \/ ExtractThrows(adapter, result)
            THEN AdapterCatch(entry, TypeError, AdapterDefaultMessage(adapter))
            ELSE /\ AdapterReturns(entry, SuccessJson(ExtractReply(result),
                                                      ExtractUsage(adapter, result)))
                 /\ UNCHANGED <<thrown, defaultMessage, chatError>>
     ELSE IF ConsumedMode(adapter, ValidatedData) = "single"
          THEN AdapterCatch(entry, TypeError, AdapterDefaultMessage(adapter))
          ELSE /\ pc' = "streaming"
               /\ UNCHANGED <<thrown, defaultMessage, chatError, adapterResp>>
  /\ UNCHANGED <<env, entry, body, adapter, outbound, callMode, arrived,
                 fullContent, routerError, response, dispatches, providerCalls>>

\* the provider call rejects
ProviderRejects ==
  /\ pc = "calling"
  /\ \E e \in ProviderErrors : AdapterCatch(entry, e, AdapterDefaultMessage(adapter))
  /\ UNCHANGED <<env, entry, body, adapter, outbound, callMode, arrived,
                 fullContent, routerError, response, dispatches, providerCalls>>

\* for await (const chunk of stream): one chunk arrives and is appended
StreamChunk ==
  /\ pc = "streaming"
  /\ Len(arrived) < MaxChunks
  /\ \E chunk \in ChunkValues :
       /\ arrived' = Append(arrived, chunk)
       /\ fullContent' = Accumulate(fullContent, chunk)
  /\ UNCHANGED <<env, pc, entry, body, adapter, outbound, callMode, thrown,
                 defaultMessage, chatError, routerError, adapterResp, response,
                 dispatches, providerCalls>>

\* the stream ends: the adapter returns the accumulated text
StreamEnds ==
  /\ pc = "streaming"
  /\ AdapterReturns(entry, SuccessJson(fullContent, Undefined))
  /\ UNCHANGED <<env, entry, body, adapter, outbound, callMode, arrived,
                 fullContent, thrown, defaultMessage, chatError, routerError,
                 response, dispatches, providerCalls>>

\* the stream fails part-way
StreamFails ==
  /\ pc = "streaming"
  /\ \E e \in StreamErrors : AdapterCatch(entry, e, AdapterDefaultMessage(adapter))
  /\ UNCHANGED <<env, entry, body, adapter, outbound, callMode, arrived,
                 fullContent, routerError, response, dispatches, providerCalls>>

\* NextResponse.json(await response.json(), { status: response.status })
RouterRelays ==
  /\ pc = "replied"
  /\ response' = adapterResp
  /\ pc' = "done"
  /\ UNCHANGED <<env, entry, body, adapter, outbound, callMode, arrived,
                 fullContent, thrown, defaultMessage, chatError, routerError,
                 adapterResp, dispatches, providerCalls>>

Next ==
  \/ RouterPOST
  \/ RouterFetchFails
  \/ AdapterPOST
  \/ DirectPOST
  \/ ProviderResolves
  \/ ProviderRejects
  \/ StreamChunk
  \/ StreamEnds
  \/ StreamFails
  \/ RouterRelays

Spec == Init /\ [][Next]_vars

-----------------------------------------------------------------------------
(* Claims about the gateway (checked under Spec) *)

RouterDone == entry = "router" /\ pc = "done"

AdapterAnswered == adapterResp # NoResponse

ModelKnown(b) == Get(b, "model").t = "string" /\ Get(b, "model").v \in KnownModels

\* the payload violates the request schema: a bad or missing model, messages
\* not a sequence of objects, a role outside the three roles, a content that
\* is present and not text, a stream that is not a boolean, parameters that
\* are not a mapping
ViolatesRequestSchema(b) ==
  \/ ~ModelKnown(b)
  \/ Get(b, "messages").t # "array"
  \/ \E i \in DOMAIN Get(b, "messages").v :
       LET m == Get(b, "messages").v[i] IN
         \/ m.t # "object"
         \/ ~(Get(m, "role").t = "string" /\ Get(m, "role").v \in MessageRole)
         \/ Get(m, "content").t \notin {"undefined", "null", "string"}
  \/ Get(b, "stream").t \notin {"undefined", "boolean"}
  \/ Get(b, "parameters").t \notin {"undefined", "object"}

\* C1 as stated: a payload whose model is not openai, gemini or deepseek is
\* answered by the router with UNSUPPORTED_MODEL or VALIDATION_ERROR and status
\* 400, whatever else it holds, and nothing is dispatched or sent to a provider.
C1_UnknownModelRejectedWith400 ==
  (RouterDone /\ body.t = "object" /\ ~ModelKnown(body)) =>
    /\ response.status = 400
    /\ "errorType" \in DOMAIN response.body
    /\ response.body.errorType \in {"UNSUPPORTED_MODEL", "VALIDATION_ERROR"}
    /\ dispatches = 0
    /\ providerCalls = 0

\* C2 as stated: a payload that violates the request schema is answered by the
\* router with VALIDATION_ERROR, status 400, the violations in details and the
\* check-your-message-format suggestion, and with nothing else.
C2_SchemaViolationIsValidationError ==
  (RouterDone /\ body.t = "object" /\ ViolatesRequestSchema(body)) =>
    /\ response.status = 400
    /\ "errorType" \in DOMAIN response.body
    /\ response.body.errorType = "VALIDATION_ERROR"
    /\ "details" \in DOMAIN response.body
    /\ response.body.details.class = "ZodError"
    /\ response.body.details.issues # {}
    /\ "suggestion" \in DOMAIN response.body
    /\ response.body.suggestion = <<"Please check your message format and try again.">>

IsSuccess(r) ==
  /\ r.status = 200
  /\ "reply" \in DOMAIN r.body
  /\ "error" \notin DOMAIN r.body
  /\ "errorType" \notin DOMAIN r.body

IsFailure(r) ==
  /\ r.status # 200
  /\ {"reply", "error", "errorType"} \subseteq DOMAIN r.body
  /\ r.body.reply = <<>>
  /\ r.body.error # <<>>
  /\ r.body.errorType \in ErrorType

\* C4: every response of the router or of an adapter is a success (reply
\* present, no error, no errorType, status 200) or a failure (empty reply,
\* non-empty error, errorType one of the eight kinds, status the statusCode of
\* the normalizer's result); never a reply with an error, never a failure
\* with status 200.
C4_ResponseIsSuccessOrFailure ==
  /\ AdapterAnswered =>
       /\ IsSuccess(adapterResp) \/ IsFailure(adapterResp)
       /\ IsFailure(adapterResp) =>
            /\ chatError # NoError
            /\ adapterResp.status = chatError.statusCode
  /\ response # NoResponse =>
       /\ IsSuccess(response) \/ IsFailure(response)
       /\ IsFailure(response) =>
            IF routerError # NoError
            THEN response.status = routerError.statusCode
            ELSE response = adapterResp

C4_Witness ==
  /\ RouterDone
  /\ response = adapterResp
  /\ IsFailure(response)
  /\ response.status = 401
  /\ response.body.errorType = "AUTHENTICATION_ERROR"

C4_WitnessSuccess ==
  /\ RouterDone
  /\ IsSuccess(response)
  /\ response.body.reply = <<"Hello!">>

\* two thrown values of the same class, message and status that differ in the
\* upstream error payload alone
DifferInPayloadOnly(e1, e2) ==
  /\ e1.class = e2.class
  /\ e1.message = e2.message
  /\ HasStatus(e1) /\ HasStatus(e2)
  /\ e1.response.status = e2.response.status

\* C8 as stated: the top-level error and errorType of a failure response do not
\* depend on the provider's error payload: a provider failure that differs from
\* the one answered in the upstream payload alone gives the same error and
\* errorType.
C8_TopLevelIndependentOfProviderText ==
  (AdapterAnswered /\ IsFailure(adapterResp) /\ thrown \in ProviderErrors) =>
    \A e2 \in ProviderErrors :
      DifferInPayloadOnly(thrown, e2) =>
        LET r2 == ErrorJson(createErrorResponse(e2, defaultMessage)) IN
          /\ r2.body.error = adapterResp.body.error
          /\ r2.body.errorType = adapterResp.body.errorType

\* the messages of the outbound provider request
OutboundMessages ==
  IF adapter = "gemini" THEN Get(outbound, "contents") ELSE Get(outbound, "messages")

\* the text of an outbound message
OutboundText(m) ==
  IF adapter = "gemini" THEN Get(Get(m, "parts").v[1], "text") ELSE Get(m, "content")

\* the role an inbound role is sent as
OutboundRole(role) ==
  IF adapter = "gemini"
  THEN (IF role = Str(<<"assistant">>) THEN Str(<<"model">>) ELSE Str(<<"user">>))
  ELSE role

\* the trimmed content of an inbound message, empty when absent
InboundText(m) ==
  IF Get(m, "content").t = "string" THEN Str(Trim(Get(m, "content").v)) ELSE Str(<<>>)

\* C9 as stated: the messages of the outbound provider request have the length
\* and the order of the inbound messages, element i being inbound message i
\* with its content trimmed, whatever the request's parameters hold.
C9_MessagesForwardedInOrder ==
  outbound # NoRequest =>
    LET inbound == Get(body, "messages").v
        out == OutboundMessages
    IN  /\ out.t = "array"
        /\ Len(out.v) = Len(inbound)
        /\ \A i \in DOMAIN inbound :
             /\ OutboundText(out.v[i]) = InboundText(inbound[i])
             /\ Get(out.v[i], "role") = OutboundRole(Get(inbound[i], "role"))

\* C10 as stated: the OpenAI adapter sends each message with the name and the
\* function_call of the inbound message (parameters that replace the messages
\* set aside).
C10_NameAndFunctionCallForwarded ==
  (outbound # NoRequest /\ adapter = "openai"
     /\ Get(Get(body, "parameters"), "messages") = Undefined) =>
    LET inbound == Get(body, "messages").v
        out == Get(outbound, "messages").v
    IN  \A i \in DOMAIN inbound :
          /\ Get(out[i], "name") = Get(inbound[i], "name")
          /\ Get(out[i], "function_call") = Get(inbound[i], "function_call")

\* the stream flag of the validated request is true (absent counts as false)
StreamRequested == Get(ValidatedData, "stream") = Bool(TRUE)

\* C11 as stated: in the OpenAI adapter the provider call is made in streaming
\* mode exactly when the validated request's stream is true, and the adapter
\* reads the result in the mode of the call, whatever the parameters hold.
C11_StreamModeFollowsStreamFlag ==
  (adapter = "openai" /\ outbound # NoRequest) =>
    /\ callMode = (IF StreamRequested THEN "stream" ELSE "single")
    /\ ConsumedMode("openai", ValidatedData) = callMode

\* the text a chunk contributes: its text, or nothing when it has none
TextOf(chunk) == IF chunk.t = "string" THEN chunk.v ELSE <<>>

\* the texts of the chunks in arrival order, joined
RECURSIVE Joined(_)
Joined(chunks) ==
  IF chunks = <<>> THEN <<>> ELSE TextOf(Head(chunks)) \o Joined(Tail(chunks))

\* the adapter read a stream: openai or gemini, asked for and read as a stream
ReadStream ==
  /\ adapter \in {"openai", "gemini"}
  /\ callMode = "stream"
  /\ ConsumedMode(adapter, ValidatedData) = "stream"

\* C12: on the streaming paths of the OpenAI and Gemini adapters no response
\* exists while chunks are still being consumed; the reply of the response is
\* the texts of all chunks that arrived, joined in arrival order, a chunk
\* without text adding nothing; and when the stream fails part-way the
\* response is a failure with an empty reply, whatever had arrived.
C12_StreamReplyIsConcatenation ==
  /\ pc = "streaming" => (ReadStream /\ adapterResp = NoResponse /\ response = NoResponse)
  /\ arrived # <<>> => ReadStream
  /\ (ReadStream /\ AdapterAnswered) =>
       IF chatError = NoError
       THEN /\ IsSuccess(adapterResp)
            /\ adapterResp.body.reply = Joined(arrived)
            /\ fullContent = Joined(arrived)
       ELSE /\ IsFailure(adapterResp)
            /\ adapterResp.body.reply = <<>>
  /\ (ReadStream /\ response # NoResponse /\ routerError = NoError) =>
       response = adapterResp

C12_Witness ==
  /\ RouterDone
  /\ adapter = "openai"
  /\ arrived = <<Str(<<"Hel">>), Str(<<"lo">>)>>
  /\ response.status = 200
  /\ response.body.reply = <<"Hel", "lo">>

C12_WitnessPartial ==
  /\ pc = "done"
  /\ adapter = "gemini"
  /\ arrived = <<Str(<<"Hel">>), Undefined>>
  /\ fullContent = <<"Hel">>
  /\ IsFailure(adapterResp)
  /\ adapterResp.body.reply = <<>>

\* C13 as stated: DeepSeek needs no API key: a valid request to the DeepSeek
\* adapter is sent to the provider when DEEPSEEK_API_KEY is not set, and the
\* adapter does not answer it with a configuration error.
C13_DeepSeekNeedsNoKey ==
  (adapter = "deepseek" /\ env["DEEPSEEK_API_KEY"] = Undefined
     /\ ~ParseAndValidate(body).threw) =>
    /\ providerCalls = 1
    /\ outbound # NoRequest
    /\ AdapterAnswered => adapterResp.body.errorType # "CONFIGURATION_ERROR"

\* the provider an outbound request is made for, by the model it names
ProviderOf(request) ==
  CASE Get(request, "model") = Str(<<"gpt-3.5-turbo">>) -> "openai"
    [] Get(request, "model") = Str(<<"gemini-2.0-flash-001">>) -> "gemini"
    [] Get(request, "model") = Str(<<"deepseek-chat">>) -> "deepseek"
    [] OTHER -> "none"

\* C14: while the router handles one inbound request it dispatches to at most
\* one model handler and at most one provider call is made, never without a
\* dispatch; the handler and the provider are the ones the request's model
\* names; and once anything has failed the request is over or on its way back
\* through the router: no second dispatch, no second call.
C14_OneDispatchOneProviderCall ==
  entry = "router" =>
    /\ dispatches \in {0, 1}
    /\ providerCalls \in {0, 1}
    /\ providerCalls <= dispatches
    /\ dispatches = 1 => Get(body, "model") = Str(<<adapter>>)
    /\ dispatches = 0 => (adapter = "none" /\ pc = "done")
    /\ providerCalls = 1 =>
         /\ outbound # NoRequest
         /\ Str(<<ProviderOf(outbound)>>) = Get(body, "model")
    /\ providerCalls = 0 => outbound = NoRequest
    /\ thrown # NoError => pc \in {"replied", "done"}

C14_Witness ==
  /\ RouterDone
  /\ adapter = "gemini"
  /\ dispatches = 1
  /\ providerCalls = 1
  /\ thrown \in ProviderErrors
  /\ IsFailure(response)

\* the errorType of a response, "none" for a success
ErrorTypeOf(r) == IF "errorType" \in DOMAIN r.body THEN r.body.errorType ELSE "none"

\* the handler the router dispatched to has run past its validation step
HandlerValidated ==
  /\ entry = "router"
  /\ dispatches = 1
  /\ pc \in {"calling", "streaming", "replied"} \/ (pc = "done" /\ AdapterAnswered)

\* C15 as stated: the handler the router dispatched to never answers the
\* router with VALIDATION_ERROR, and no response of the router carries
\* UNSUPPORTED_MODEL or RATE_LIMIT_ERROR.
C15_HandlerNeverAnswersValidationError ==
  /\ (entry = "router" /\ AdapterAnswered) =>
       ErrorTypeOf(adapterResp) # "VALIDATION_ERROR"
  /\ (entry = "router" /\ response # NoResponse) =>
       ErrorTypeOf(response) \notin {"UNSUPPORTED_MODEL", "RATE_LIMIT_ERROR"}

\* C15 amended: the trim-and-validate step of the handler the router
\* dispatched to accepts the payload: with its API key set the handler always
\* goes on to the provider call, and it never answers with schema violations.
\* A VALIDATION_ERROR answer of the handler comes from an upstream status 400
\* alone and carries the provider's payload.  No response of the router or
\* of a handler carries UNSUPPORTED_MODEL or RATE_LIMIT_ERROR.
C15_HandlerValidationAccepts ==
  /\ (HandlerValidated /\ ~MissingKey(env, adapter)) =>
       /\ providerCalls = 1
       /\ outbound # NoRequest
  /\ (entry = "router" /\ AdapterAnswered
         /\ ErrorTypeOf(adapterResp) = "VALIDATION_ERROR") =>
       /\ providerCalls = 1
       /\ thrown.class = "Error" /\ HasStatus(thrown) /\ thrown.response.status = 400
       /\ adapterResp.status = 400
       /\ adapterResp.body.error = API_ERROR_MESSAGES["400"].message
       /\ "details" \in DOMAIN adapterResp.body =>
            adapterResp.body.details = thrown.response.data
  /\ (entry = "router" /\ AdapterAnswered) =>
       ErrorTypeOf(adapterResp) \notin {"UNSUPPORTED_MODEL", "RATE_LIMIT_ERROR"}
  /\ (entry = "router" /\ response # NoResponse) =>
       ErrorTypeOf(response) \notin {"UNSUPPORTED_MODEL", "RATE_LIMIT_ERROR"}

C15_Witness ==
  /\ RouterDone
  /\ dispatches = 1
  /\ providerCalls = 1
  /\ thrown \in ProviderErrors
  /\ HasStatus(thrown) /\ thrown.response.status = 400
  /\ response = adapterResp
  /\ ErrorTypeOf(response) = "VALIDATION_ERROR"

C15_WitnessAtCapacity ==
  /\ RouterDone
  /\ thrown \in ProviderErrors
  /\ HasStatus(thrown) /\ thrown.response.status = 429
  /\ response.status = 429
  /\ ErrorTypeOf(response) = "API_ERROR"

-----------------------------------------------------------------------------
(* Claims about the error normalizer (checked under NormSpec) *)

\* the type the status table of the specification gives an upstream status
TableType(status) ==
  CASE status \in {401, 403} -> "AUTHENTICATION_ERROR"
    [] status = 400 -> "VALIDATION_ERROR"
    [] OTHER -> "API_ERROR"

TableStatuses == {400, 401, 403, 429, 500, 503}

\* chatError is what the status table gives for the upstream status of error
StatusMapped(error, ce) ==
  /\ ce.statusCode = error.response.status
  /\ ce.type = TableType(error.response.status)
  /\ "suggestion" \in DOMAIN ce /\ ce.suggestion # <<>>
  /\ error.response.status \in TableStatuses =>
       /\ Len(ce.message) = 1
       /\ \A e2 \in ThrownValues :
            (HasStatus(e2) /\ IsError(e2) /\ ~IsChatErrorImpl(e2)
               /\ e2.response.status = error.response.status)
            => createErrorResponse(e2, defaultMessage).message = ce.message
  /\ error.response.status \notin TableStatuses =>
       SubSeq(ce.message, 1, 3) = <<"API Error (", ToString(error.response.status), "): ">>

\* C5 as stated: every thrown value that carries an upstream status and is not
\* in the internal error shape, Error instance or not, is normalized to the
\* upstream status and the (message, type, suggestion) of the status table.
C5_AnyValueWithStatusMapped ==
  (pc = "normalized" /\ HasStatus(thrown) /\ ~IsChatErrorImpl(thrown))
    => StatusMapped(thrown, chatError)

\* C5 amended: every thrown Error instance that carries an upstream status and
\* is not in the internal error shape is normalized to the upstream status and
\* the (message, type, suggestion) of the status table; a value that is not an
\* Error instance is normalized to UNKNOWN_ERROR with status 500 instead.
C5_ErrorWithStatusMapped ==
  /\ (pc = "normalized" /\ HasStatus(thrown) /\ thrown.class = "Error")
       => StatusMapped(thrown, chatError)
  /\ (pc = "normalized" /\ HasStatus(thrown) /\ thrown.class = "Other")
       => chatError.type = "UNKNOWN_ERROR" /\ chatError.statusCode = 500

C5_Witness ==
  /\ pc = "normalized"
  /\ thrown.class = "Error"
  /\ HasStatus(thrown) /\ thrown.response.status = 401
  /\ chatError.type = "AUTHENTICATION_ERROR"
  /\ chatError.statusCode = 401

\* C6: createErrorResponse returns a value already in the internal error shape
\* unchanged, and applying it to its own result, under any default message,
\* gives that result again.
C6_NormalizerIdempotent ==
  /\ (pc = "normalized" /\ IsChatErrorImpl(thrown)) => chatError = thrown
  /\ pc = "renormalized" => routerError = chatError

C6_Witness ==
  /\ pc = "renormalized"
  /\ thrown.class = "Error"
  /\ chatError.type = "UNKNOWN_ERROR"
  /\ defaultMessage # chatError.message
  /\ routerError = chatError

\* the connectivity signal as the claim words it: "network" / "cannot connect"
ClaimedNetworkSignal(message) ==
  Includes(message, <<"network">>) \/ Includes(message, <<"cannot", " ", "connect">>)

IsUnknownError(ce) ==
  /\ ce.type = "UNKNOWN_ERROR"
  /\ ce.statusCode = 500
  /\ ce.message = defaultMessage

IsNetworkError(ce) == ce.type = "NETWORK_ERROR" /\ ce.statusCode = 503

\* C7 as stated: a thrown value that is neither in the internal error shape nor
\* carries a status is NETWORK_ERROR/503 exactly when its message contains
\* "network" or "cannot connect", and otherwise UNKNOWN_ERROR/500 with the
\* default message; a status-bearing value is never NETWORK_ERROR.
C7_NetworkExactlyWhenSignalled ==
  pc = "normalized" =>
    /\ (~IsChatErrorImpl(thrown) /\ ~HasStatus(thrown)) =>
         IF ClaimedNetworkSignal(thrown.message)
         THEN IsNetworkError(chatError)
         ELSE IsUnknownError(chatError)
    /\ (~IsChatErrorImpl(thrown) /\ HasStatus(thrown)) =>
         chatError.type # "NETWORK_ERROR"

\* C7 amended: createErrorResponse always returns a result; for a thrown value
\* that is not in the internal error shape and is not an Error instance with a
\* status, the result is NETWORK_ERROR/503 exactly when the value is an Error
\* instance whose message contains "network" or "connect" (case-sensitive), and
\* otherwise UNKNOWN_ERROR/500 with the caller's default message; a
\* status-bearing value is never NETWORK_ERROR.
C7_NetworkExactlyForErrorWithConnect ==
  pc = "normalized" =>
    /\ chatError.class = "ChatErrorImpl" /\ chatError.type \in ErrorType
    /\ (~IsChatErrorImpl(thrown) /\ ~(thrown.class = "Error" /\ HasStatus(thrown))) =>
         IF thrown.class = "Error"
            /\ (Includes(thrown.message, <<"network">>)
                  \/ Includes(thrown.message, <<"connect">>))
         THEN IsNetworkError(chatError)
         ELSE IsUnknownError(chatError)
    /\ (~IsChatErrorImpl(thrown) /\ HasStatus(thrown)) =>
         chatError.type # "NETWORK_ERROR"

C7_Witness ==
  /\ pc = "normalized"
  /\ thrown = JsError(<<"dis", "connect", "ed">>)
  /\ IsNetworkError(chatError)

C7_WitnessUnknown ==
  /\ pc = "normalized"
  /\ thrown = NonError(<<"network", " ", "timeout">>)
  /\ IsUnknownError(chatError)

====
